---- MODULE Spec2Model ----
(***************************************************************************)
(* A model of the to-do manager: the record model (src/src/models.py),     *)
(* the JSON store with its write-to-temp-then-replace save                 *)
(* (src/src/storage.py) and the command handlers (src/src/cli.py).         *)
(*                                                                         *)
(* Strings that the code inspects (title, category, the list filters) are  *)
(* sequences of one-character strings, so that lower() and the substring   *)
(* test are computed.  A timestamp is the reading of the system clock: the *)
(* ISO-8601 strings _now_iso produces (same zone, fixed field widths)      *)
(* order as the instants they denote.  The clock never runs backwards.     *)
(* uuid4 identifiers are modelled as fresh: nextId counts the identifiers  *)
(* handed out so far.                                                      *)
(***************************************************************************)
EXTENDS Integers, Sequences, FiniteSets, TLC

VARIABLES
    fs,        \* the directory of the store: path -> [exists, data]
    clock,     \* the last reading of the system clock
    nextId,    \* the next identifier _new_id hands out
    pc,        \* per process: where the invocation stands
    cmd,       \* per process: the parsed arguments (args)
    items,     \* per process: the in-memory list of TodoItem
    rc,        \* per process: the exit code of the finished command
    tmp,       \* per process: the path mkstemp returned
    out,       \* per process: the records handed to _print_table
    hist       \* per process: what the invocation did (for the properties)

vars == <<fs, clock, nextId, pc, cmd, items, rc, tmp, out, hist>>

(***************************************************************************)
(* Bounds                                                                  *)
(***************************************************************************)
MaxClock == 1      \* clock readings are 0..MaxClock
MaxIds == 2        \* identifiers handed out by _new_id
MaxLen == 2        \* length of the collections the store specifications draw

Procs == {"p1", "p2"}

(***************************************************************************)
(* Strings                                                                 *)
(***************************************************************************)
UpperCase ==
    <<"A", "B", "C", "D", "E", "F", "G", "H", "I", "J", "K", "L", "M",
      "N", "O", "P", "Q", "R", "S", "T", "U", "V", "W", "X", "Y", "Z">>
LowerCase ==
    <<"a", "b", "c", "d", "e", "f", "g", "h", "i", "j", "k", "l", "m",
      "n", "o", "p", "q", "r", "s", "t", "u", "v", "w", "x", "y", "z">>

LowerChar(c) ==
    IF \E i \in DOMAIN UpperCase : UpperCase[i] = c
    THEN LowerCase[CHOOSE i \in DOMAIN UpperCase : UpperCase[i] = c]
    ELSE c

\* str.lower()
lower(s) == [i \in DOMAIN s |-> LowerChar(s[i])]

\* `term in s` for strings
contains(s, term) ==
    \E k \in 0..(Len(s) - Len(term)) :
        \A i \in 1..Len(term) : s[k + i] = term[i]

\* Absent optional argument (argparse default=None)
None == <<"None">>

General == <<"G", "e", "n", "e", "r", "a", "l">>
Work == <<"W", "o", "r", "k">>

(***************************************************************************)
(* models.py                                                               *)
(***************************************************************************)
Fields == {"title", "category", "done", "id", "created_at", "updated_at"}

\* The dataclass: one value per field.
TodoItem(title, category, done, id, created_at, updated_at) ==
    [title |-> title, category |-> category, done |-> done, id |-> id,
     created_at |-> created_at, updated_at |-> updated_at]

NewTodoItem_shared_id(title, category, nid, t1, t2) ==
    TodoItem(title, category, FALSE, 1, t1, t2)

\* TodoItem(title=..., category=...): done defaults to False, id, created_at
\* and updated_at come from their default factories, each called once, in
\* field order: t1 is the clock reading of created_at's factory, t2 that of
\* updated_at's.
NewTodoItem(title, category, nid, t1, t2) ==
    TodoItem(title, category, FALSE, nid, t1, t2)

touch_created_at(item, now) == [item EXCEPT !.created_at = now]

\* TodoItem.touch
touch(item, now) == [item EXCEPT !.updated_at = now]

to_dict_without_done(item) == [k \in Fields \ {"done"} |-> item[k]]

\* TodoItem.to_dict: asdict, every field under its own name
to_dict(item) == [k \in Fields |-> item[k]]

\* Whether cls(**data) is accepted: title is required, no unknown keyword.
from_dict_ok(data) ==
    /\ "title" \in DOMAIN data
    /\ DOMAIN data \subseteq Fields

\* TodoItem.from_dict: cls(**data); a field that data lacks takes its default
\* (dflt holds what the default factories return).
from_dict(data, dflt) ==
    LET get(k, d) == IF k \in DOMAIN data THEN data[k] ELSE d
    IN TodoItem(data["title"],
                get("category", General),
                get("done", FALSE),
                get("id", dflt.id),
                get("created_at", dflt.created_at),
                get("updated_at", dflt.updated_at))

(***************************************************************************)
(* storage.py: the file contents                                           *)
(***************************************************************************)
\* A file is a sequence of JSON tokens: the opening bracket, one object per
\* record, the closing bracket.
TokBegin == <<"[">>
TokEnd == <<"]">>
TokObj(d) == <<"{", d>>

NoFile == [exists |-> FALSE, data |-> <<>>]
File(data) == [exists |-> TRUE, data |-> data]

\* json.dump(data, f, indent=2): data is the list of dicts
json_dump(data) ==
    <<TokBegin>> \o [i \in DOMAIN data |-> TokObj(data[i])] \o <<TokEnd>>

\* Whether json.load accepts the text as a list of objects
json_ok(text) ==
    /\ Len(text) >= 2
    /\ text[1] = TokBegin
    /\ text[Len(text)] = TokEnd
    /\ \A i \in 2..(Len(text) - 1) : Len(text[i]) = 2 /\ text[i][1] = "{"

\* json.load
json_load(text) == [i \in 1..(Len(text) - 2) |-> text[i + 1][2]]

\* [item.to_dict() for item in items]
dicts_of(its) == [i \in DOMAIN its |-> to_dict(its[i])]

\* What save_items writes for a list of items
serialize(its) == json_dump(dicts_of(its))

\* load_items on an opened (or missing) file: "ok" with the list, or "error"
load_result(file, dflt) ==
    IF ~file.exists THEN [status |-> "ok", items |-> <<>>]
    ELSE IF ~json_ok(file.data) THEN [status |-> "error", items |-> <<>>]
    ELSE LET data == json_load(file.data)
         IN IF \A i \in DOMAIN data : from_dict_ok(data[i])
            THEN [status |-> "ok",
                  items |-> [i \in DOMAIN data |->
                     \* each call of the id factory returns another id
                     from_dict(data[i], [dflt EXCEPT !.id = @ + i - 1])]]
            ELSE [status |-> "error", items |-> <<>>]

(***************************************************************************)
(* storage.py: paths and processes                                         *)
(***************************************************************************)
DbPath == "db"

mkstemp_in_place(p) == DbPath

\* tempfile.mkstemp(dir=dir_, suffix=".tmp"): a new name in the directory of
\* the store, different from every name in use (one per running process)
mkstemp(p) == IF p = "p1" THEN "tmp1" ELSE "tmp2"

Paths == {DbPath} \cup {mkstemp(p) : p \in Procs}

NoTmp == "none"

\* argparse.Namespace; a field the subcommand does not have is None
NoDone == <<>>
Args(command, title, category, id, done, search) ==
    [command |-> command, title |-> title, category |-> category,
     id |-> id, done |-> done, search |-> search]
NoArgs == Args("none", None, None, 0, NoDone, None)

\* What the properties remember of an invocation: the store file when it
\* started (pre), the list it loaded (loaded), whether it called save_items
\* (wrote), the records it constructed (made), whether it began after the
\* other process had finished saving (after), the step of save_items that
\* raised (fail), and the rank of its save among the saves so far (order).
NoHist ==
    [pre |-> NoFile, loaded |-> <<>>, wrote |-> FALSE, made |-> <<>>,
     after |-> FALSE, fail |-> "no", order |-> 0]

\* What the default factories of a record built now would return
Dflt == [id |-> nextId, created_at |-> clock, updated_at |-> clock]

(***************************************************************************)
(* save_items, step by step (storage.py lines 29-45)                       *)
(***************************************************************************)
\* The text save_items still has to write, given what the temp file holds
Remaining(p) ==
    LET text == serialize(items[p])
    IN SubSeq(text, Len(fs[tmp[p]].data) + 1, Len(text))

\* fd, tmp = tempfile.mkstemp(...): the temp file exists and is empty
SaveMkstemp(p) ==
    /\ pc[p] = "save_start"
    /\ tmp' = [tmp EXCEPT ![p] = mkstemp(p)]
    /\ fs' = [fs EXCEPT ![mkstemp(p)] = File(<<>>)]
    /\ hist' = [hist EXCEPT ![p].pre = fs[DbPath], ![p].wrote = TRUE]
    /\ pc' = [pc EXCEPT ![p] = "writing"]
    /\ UNCHANGED <<out, clock, nextId, cmd, items, rc>>

\* json.dump(data, f, ...): the text reaches the temp file piece by piece
SaveWrite(p) ==
    /\ pc[p] = "writing"
    /\ Remaining(p) # <<>>
    /\ fs' = [fs EXCEPT ![tmp[p]].data = Append(@, Head(Remaining(p)))]
    /\ UNCHANGED <<out, clock, nextId, pc, cmd, items, rc, tmp, hist>>

\* the with block ends: everything is written and the file is closed
SaveClose(p) ==
    /\ pc[p] = "writing"
    /\ Remaining(p) = <<>>
    /\ pc' = [pc EXCEPT ![p] = "written"]
    /\ UNCHANGED <<out, fs, clock, nextId, cmd, items, rc, tmp, hist>>

\* json.dump or the close raises (disk full, interrupt): control reaches
\* the except clause
SaveWriteFail(p) ==
    /\ pc[p] = "writing"
    /\ pc' = [pc EXCEPT ![p] = "except"]
    /\ hist' = [hist EXCEPT ![p].fail = "write"]
    /\ UNCHANGED <<out, fs, clock, nextId, cmd, items, rc, tmp>>

replace_skipped(dir, src, dst) == dir

\* The directory after os.replace(src, dst)
replace(dir, src, dst) ==
    IF src = dst THEN dir
    ELSE [dir EXCEPT ![dst] = dir[src], ![src] = NoFile]

\* os.replace(tmp, str(p)) succeeds: save_items returns
SaveReplace(p) ==
    /\ pc[p] = "written"
    /\ fs' = replace(fs, tmp[p], DbPath)
    /\ pc' = [pc EXCEPT ![p] = "saved"]
    /\ UNCHANGED <<out, clock, nextId, cmd, items, rc, tmp, hist>>

\* os.replace raises: nothing is renamed
SaveReplaceFail(p) ==
    /\ pc[p] = "written"
    /\ pc' = [pc EXCEPT ![p] = "except"]
    /\ hist' = [hist EXCEPT ![p].fail = "replace"]
    /\ UNCHANGED <<out, fs, clock, nextId, cmd, items, rc, tmp>>

cleanup_skipped(dir, t) == dir

\* The directory after: if os.path.exists(tmp): os.unlink(tmp)
cleanup(dir, t) == IF dir[t].exists THEN [dir EXCEPT ![t] = NoFile] ELSE dir

\* except BaseException: remove the temp file, raise
SaveExcept(p) ==
    /\ pc[p] = "except"
    /\ fs' = cleanup(fs, tmp[p])
    /\ pc' = [pc EXCEPT ![p] = "raised"]
    /\ UNCHANGED <<out, clock, nextId, cmd, items, rc, tmp, hist>>

\* The saving process is killed (SIGKILL): no handler runs
SaveKill(p) ==
    /\ pc[p] \in {"writing", "written", "except"}
    /\ pc' = [pc EXCEPT ![p] = "killed"]
    /\ UNCHANGED <<out, fs, clock, nextId, cmd, items, rc, tmp, hist>>

(***************************************************************************)
(* load_items, step by step (storage.py lines 19-26)                       *)
(***************************************************************************)
\* if not p.exists(): return []
LoadExists(p, other) ==
    /\ pc[p] = "load_start"
    /\ hist' = [hist EXCEPT ![p].pre = fs[DbPath],
                            ![p].after = (pc[other] = "saved")]
    /\ IF fs[DbPath].exists
       THEN /\ pc' = [pc EXCEPT ![p] = "load_open"]
            /\ UNCHANGED items
       ELSE /\ pc' = [pc EXCEPT ![p] = "loaded"]
            /\ items' = [items EXCEPT ![p] = <<>>]
    /\ UNCHANGED <<out, fs, clock, nextId, cmd, rc, tmp>>

\* open(p), json.load(f), from_dict for each: the open file is the one that
\* has the store's name at this moment
LoadRead(p) ==
    /\ pc[p] = "load_open"
    /\ LET r == load_result(fs[DbPath], Dflt)
       IN /\ pc' = [pc EXCEPT ![p] = IF r.status = "ok" THEN "loaded"
                                                         ELSE "load_error"]
          /\ items' = [items EXCEPT ![p] = r.items]
    /\ UNCHANGED <<out, fs, clock, nextId, cmd, rc, tmp, hist>>

\* A later process loads the store again
LoadAgain(p) ==
    /\ pc[p] = "loaded"
    /\ pc' = [pc EXCEPT ![p] = "load_start"]
    /\ items' = [items EXCEPT ![p] = <<>>]
    /\ hist' = [hist EXCEPT ![p] = NoHist]
    /\ UNCHANGED <<out, fs, clock, nextId, cmd, rc, tmp>>

(***************************************************************************)
(* SpecStore: process p1 saves a collection over a store that holds        *)
(* another (or does not exist) while process p2 loads.                     *)
(***************************************************************************)
StoreItems ==
    { TodoItem(<<"a">>, General, FALSE, 1, 0, 1),
      TodoItem(<<"A", "b">>, Work, TRUE, 2, 1, 1) }

Collections(S, n) == UNION { [1..k -> S] : k \in 0..n }

StoreFiles ==
    {NoFile} \cup { File(serialize(c)) : c \in Collections(StoreItems, MaxLen) }

InitStore ==
    /\ \E f \in StoreFiles :
         fs = [n \in Paths |-> IF n = DbPath THEN f ELSE NoFile]
    /\ clock = 0
    /\ nextId = 1
    /\ pc = [p \in Procs |-> IF p = "p1" THEN "save_start" ELSE "load_start"]
    /\ cmd = [p \in Procs |-> NoArgs]
    /\ \E c \in Collections(StoreItems, MaxLen) :
         items = [p \in Procs |-> IF p = "p1" THEN c ELSE <<>>]
    /\ rc = [p \in Procs |-> 0]
    /\ tmp = [p \in Procs |-> NoTmp]
    /\ out = [p \in Procs |-> <<>>]
    /\ hist = [p \in Procs |-> NoHist]

NextStore ==
    \/ SaveMkstemp("p1")
    \/ SaveWrite("p1")
    \/ SaveClose("p1")
    \/ SaveWriteFail("p1")
    \/ SaveReplace("p1")
    \/ SaveReplaceFail("p1")
    \/ SaveExcept("p1")
    \/ SaveKill("p1")
    \/ LoadExists("p2", "p1")
    \/ LoadRead("p2")
    \/ LoadAgain("p2")

SpecStore == InitStore /\ [][NextStore]_vars

\* The collection p1 saves, the store file it found, and what that file
\* loads as
NewItems == items["p1"]
OldFile == IF pc["p1"] = "save_start" THEN fs[DbPath] ELSE hist["p1"].pre
OldItems == load_result(OldFile, Dflt).items
TmpFiles == { n \in Paths \ {DbPath} : fs[n].exists }

\* C1: when save_items has failed after creating its temp file (while
\* writing or at the replace) and the error has propagated, the store file
\* is what it was before the save (or still absent), no temp file is left,
\* and the call ended by raising.
C1_FailedSaveLeavesStore ==
    hist["p1"].fail # "no" /\ pc["p1"] \notin {"except", "killed"}
        => /\ pc["p1"] = "raised"
           /\ fs[DbPath] = OldFile
           /\ TmpFiles = {}

\* C1 witness: the replace step failed over an existing store that holds a
\* different, non-empty collection, and the error has propagated.
C1_Witness ==
    /\ pc["p1"] = "raised"
    /\ hist["p1"].fail = "replace"
    /\ OldFile.exists
    /\ Len(OldItems) > 0
    /\ OldItems # NewItems

\* C2: at every step of save_items, also after the saving process is
\* killed, the store file is the complete old one or the complete new one,
\* and a load that runs meanwhile returns the whole old collection or the
\* whole new one.
C2_StoreOldOrNew ==
    /\ fs[DbPath] \in {OldFile, File(serialize(NewItems))}
    /\ pc["p2"] # "load_error"
    /\ pc["p2"] = "loaded" => items["p2"] \in {OldItems, NewItems}

\* C2 witness: the saver was killed with its temp file partly written and
\* the loader has returned the old collection, which is not the new one.
C2_Witness ==
    /\ pc["p1"] = "killed"
    /\ fs[tmp["p1"]].exists
    /\ Len(fs[tmp["p1"]].data) > 0
    /\ Len(fs[tmp["p1"]].data) < Len(serialize(NewItems))
    /\ pc["p2"] = "loaded"
    /\ Len(items["p2"]) > 0
    /\ items["p2"] = OldItems
    /\ OldItems # NewItems

\* C6: a load that starts after save_items(C) has returned yields C: as
\* many records, in the same order, equal field for field.
C6_SaveThenLoad ==
    pc["p2"] = "loaded" /\ hist["p2"].after
        => /\ Len(items["p2"]) = Len(NewItems)
           /\ \A i \in DOMAIN NewItems :
                \A k \in Fields : items["p2"][i][k] = NewItems[i][k]

\* C6 witness: a collection of two different records was saved over another
\* store and loaded back.
C6_Witness ==
    /\ pc["p2"] = "loaded"
    /\ hist["p2"].after
    /\ Len(NewItems) = 2
    /\ NewItems[1] # NewItems[2]
    /\ OldItems # NewItems

\* C6 witness for the empty collection
C6_WitnessEmpty ==
    /\ pc["p2"] = "loaded"
    /\ hist["p2"].after
    /\ NewItems = <<>>
    /\ OldFile.exists
    /\ OldItems # <<>>

(***************************************************************************)
(* cli.py: the command handlers                                            *)
(***************************************************************************)
\* A reading of the system clock after reading t: time may have passed
Ticks(t) == {t, t + 1}

\* The rank of a save p does now among the saves of the running commands
SaveOrder(p) == 1 + Cardinality({ q \in Procs \ {p} : hist[q].wrote })

\* save_items(items, db) when no step fails: the text goes to a temp file,
\* which is then renamed onto the store
save_items(dir, its, p) ==
    replace([dir EXCEPT ![mkstemp(p)] = File(serialize(its))], mkstemp(p), DbPath)

find_item_or_last(its, item_id) ==
    IF \E i \in DOMAIN its : its[i].id = item_id
    THEN CHOOSE i \in DOMAIN its :
            /\ its[i].id = item_id
            /\ \A j \in 1..(i - 1) : its[j].id # item_id
    ELSE Len(its)

\* _find_item: the position of the first item with that id, 0 for None
find_item(its, item_id) ==
    IF \E i \in DOMAIN its : its[i].id = item_id
    THEN CHOOSE i \in DOMAIN its :
            /\ its[i].id = item_id
            /\ \A j \in 1..(i - 1) : its[j].id # item_id
    ELSE 0

changed_always(args) == TRUE

\* cmd_update lines 82-91: whether any of --title, --category, --done is given
changed(args) ==
    args.title # None \/ args.category # None \/ args.done # NoDone

assign_fields_rebuilt(item, args) ==
    TodoItem(IF args.title # None THEN args.title ELSE item.title,
             IF args.category # None THEN args.category ELSE item.category,
             IF args.done # NoDone THEN args.done[1] ELSE item.done,
             item.id, clock, item.updated_at)

assign_fields_title_only(item, args) ==
    [item EXCEPT !.title = IF args.title # None THEN args.title ELSE @]

\* cmd_update lines 83-91: the given fields are assigned
assign_fields(item, args) ==
    [item EXCEPT
        !.title = IF args.title # None THEN args.title ELSE @,
        !.category = IF args.category # None THEN args.category ELSE @,
        !.done = IF args.done # NoDone THEN args.done[1] ELSE @]

without_id_inverted(its, item_id) ==
    SelectSeq(its, LAMBDA it : it.id = item_id)

without_first(its, item_id) ==
    IF \E i \in DOMAIN its : its[i].id = item_id
    THEN LET i == CHOOSE i \in DOMAIN its :
                    /\ its[i].id = item_id
                    /\ \A j \in 1..(i - 1) : its[j].id # item_id
         IN  SubSeq(its, 1, i - 1) \o SubSeq(its, i + 1, Len(its))
    ELSE its

\* cmd_delete line 105: [it for it in items if it.id != args.id]
without_id(its, item_id) == SelectSeq(its, LAMBDA it : it.id # item_id)

parse_add_no_default(title, category) ==
    Args("add", title, category, 0, NoDone, None)

\* build_parser: the Namespace of `add TITLE [--category C]`; --category
\* defaults to "General"
parse_add(title, category) ==
    Args("add", title, IF category = None THEN General ELSE category,
         0, NoDone, None)

\* the Namespace of `update ID [--title T] [--category C] [--done B]`
parse_update(id, title, category, done) ==
    Args("update", title, category, id, done, None)

\* the Namespace of `delete ID`
parse_delete(id) == Args("delete", None, None, id, NoDone, None)

\* main parses the arguments and dispatches; the handler's first statement
\* is items = load_items(db).  A store that does not parse ends the process
\* with the exception.
Start(p, args) ==
    /\ pc[p] \in {"idle", "done"}
    /\ cmd' = [cmd EXCEPT ![p] = args]
    /\ LET r == load_result(fs[DbPath], Dflt)
       IN /\ pc' = [pc EXCEPT ![p] = IF r.status = "ok" THEN "loaded"
                                                         ELSE "raised"]
          /\ items' = [items EXCEPT ![p] = r.items]
          /\ hist' = [hist EXCEPT ![p] =
                        [NoHist EXCEPT
                            !.pre = fs[DbPath],
                            !.loaded = r.items,
                            !.after = \E q \in Procs \ {p} : hist[q].wrote]]
    /\ rc' = [rc EXCEPT ![p] = 0]
    /\ out' = [out EXCEPT ![p] = <<>>]
    /\ UNCHANGED <<fs, clock, nextId, tmp>>

\* cmd_add after the load: construct the record, append, save, return 0
cmd_add(p) ==
    /\ pc[p] = "loaded"
    /\ cmd[p].command = "add"
    /\ \E t1 \in Ticks(clock) : \E t2 \in Ticks(t1) :
         LET item == NewTodoItem(cmd[p].title, cmd[p].category, nextId, t1, t2)
             its == Append(items[p], item)
         IN /\ items' = [items EXCEPT ![p] = its]
            /\ fs' = save_items(fs, its, p)
            /\ clock' = t2
            /\ hist' = [hist EXCEPT ![p].wrote = TRUE, ![p].made = <<item>>,
                                    ![p].order = SaveOrder(p)]
    /\ nextId' = nextId + 1
    /\ rc' = [rc EXCEPT ![p] = 0]
    /\ pc' = [pc EXCEPT ![p] = "done"]
    /\ UNCHANGED <<cmd, tmp, out>>

\* cmd_update after the load
cmd_update(p) ==
    /\ pc[p] = "loaded"
    /\ cmd[p].command = "update"
    /\ LET i == find_item(items[p], cmd[p].id)
       IN IF i = 0
          THEN \* not found: return 1
               /\ rc' = [rc EXCEPT ![p] = 1]
               /\ UNCHANGED <<fs, clock, items, hist>>
          ELSE IF changed(cmd[p])
          THEN \* item.touch(); save_items(items, db); return 0
               /\ \E now \in Ticks(clock) :
                    LET its == [items[p] EXCEPT
                                  ![i] = touch(assign_fields(@, cmd[p]), now)]
                    IN /\ items' = [items EXCEPT ![p] = its]
                       /\ fs' = save_items(fs, its, p)
                       /\ clock' = now
               /\ hist' = [hist EXCEPT ![p].wrote = TRUE,
                                       ![p].order = SaveOrder(p)]
               /\ rc' = [rc EXCEPT ![p] = 0]
          ELSE \* "Nothing to update."; return 0
               /\ rc' = [rc EXCEPT ![p] = 0]
               /\ UNCHANGED <<fs, clock, items, hist>>
    /\ pc' = [pc EXCEPT ![p] = "done"]
    /\ UNCHANGED <<nextId, cmd, tmp, out>>

\* cmd_delete after the load
cmd_delete(p) ==
    /\ pc[p] = "loaded"
    /\ cmd[p].command = "delete"
    /\ LET its == without_id(items[p], cmd[p].id)
       IN /\ items' = [items EXCEPT ![p] = its]
          /\ IF Len(its) = Len(items[p])
             THEN \* not found: return 1
                  /\ rc' = [rc EXCEPT ![p] = 1]
                  /\ UNCHANGED <<fs, hist>>
             ELSE \* save_items(items, db); return 0
                  /\ fs' = save_items(fs, its, p)
                  /\ hist' = [hist EXCEPT ![p].wrote = TRUE,
                                          ![p].order = SaveOrder(p)]
                  /\ rc' = [rc EXCEPT ![p] = 0]
    /\ pc' = [pc EXCEPT ![p] = "done"]
    /\ UNCHANGED <<clock, nextId, cmd, tmp, out>>

\* the Namespace of `list [--category C] [--done B] [--search S]`
parse_list(category, done, search) ==
    Args("list", None, category, 0, done, search)

\* Python truth of an optional string: None and "" are false
truthy(s) == s # None /\ s # <<>>

list_filter_all(its, args) == its

\* cmd_list lines 117-123: the three filters, one after the other
list_filter(its, args) ==
    LET by_category ==
            IF truthy(args.category)
            THEN SelectSeq(its, LAMBDA it :
                     lower(it.category) = lower(args.category))
            ELSE its
        by_done ==
            IF args.done # NoDone
            THEN SelectSeq(by_category, LAMBDA it : it.done = args.done[1])
            ELSE by_category
    IN IF truthy(args.search)
       THEN SelectSeq(by_done, LAMBDA it :
                contains(lower(it.title), lower(args.search)))
       ELSE by_done

cmd_list_saving(p) ==
    /\ pc[p] = "loaded"
    /\ cmd[p].command = "list"
    /\ out' = [out EXCEPT ![p] = list_filter(items[p], cmd[p])]
    /\ fs' = save_items(fs, list_filter(items[p], cmd[p]), p)
    /\ rc' = [rc EXCEPT ![p] = 0]
    /\ pc' = [pc EXCEPT ![p] = "done"]
    /\ UNCHANGED <<clock, nextId, cmd, items, tmp, hist>>

\* cmd_list after the load: filter, _print_table(items), return 0
cmd_list(p) ==
    /\ pc[p] = "loaded"
    /\ cmd[p].command = "list"
    /\ out' = [out EXCEPT ![p] = list_filter(items[p], cmd[p])]
    /\ rc' = [rc EXCEPT ![p] = 0]
    /\ pc' = [pc EXCEPT ![p] = "done"]
    /\ UNCHANGED <<fs, clock, nextId, cmd, items, tmp, hist>>

(***************************************************************************)
(* Spec: one user runs add, update and delete, one command after another,  *)
(* on a store that does not exist at first.                                *)
(***************************************************************************)
OptDone == {NoDone, <<TRUE>>, <<FALSE>>}
ArgIds == 1..(MaxIds + 1)

AddArgs == { parse_add(<<"a">>, None) }
UpdateArgs ==
    { parse_update(i, t, c, d) :
        i \in ArgIds, t \in {None, <<"a">>}, c \in {None}, d \in OptDone }
DeleteArgs == { parse_delete(i) : i \in ArgIds }

\* The commands that may start: add only while _new_id has identifiers left
StartArgs ==
    (IF nextId <= MaxIds THEN AddArgs ELSE {}) \cup UpdateArgs \cup DeleteArgs

Init ==
    /\ fs = [n \in Paths |-> NoFile]
    /\ clock = 0
    /\ nextId = 1
    /\ pc = [p \in Procs |-> "idle"]
    /\ cmd = [p \in Procs |-> NoArgs]
    /\ items = [p \in Procs |-> <<>>]
    /\ rc = [p \in Procs |-> 0]
    /\ tmp = [p \in Procs |-> NoTmp]
    /\ out = [p \in Procs |-> <<>>]
    /\ hist = [p \in Procs |-> NoHist]

Next ==
    \/ \E args \in StartArgs : Start("p1", args)
    \/ cmd_add("p1") /\ clock' <= MaxClock
    \/ cmd_update("p1") /\ clock' <= MaxClock
    \/ cmd_delete("p1")

Spec == Init /\ [][Next]_vars

\* The persisted collection
Stored == load_result(fs[DbPath], Dflt).items

\* C8: from an empty store, after any sequence of add, update and delete,
\* no two records of the persisted collection have the same id.
C8_UniqueIds ==
    \A i, j \in DOMAIN Stored : i # j => Stored[i].id # Stored[j].id

\* C8 witness: two records are stored and an update of one has been saved.
C8_Witness ==
    /\ Len(Stored) = 2
    /\ pc["p1"] = "done"
    /\ cmd["p1"].command = "update"
    /\ hist["p1"].wrote

\* C9: from an empty store, after any sequence of add, update and delete,
\* every persisted record has updated_at >= created_at.
C9_UpdatedNotBeforeCreated ==
    \A i \in DOMAIN Stored : Stored[i].updated_at >= Stored[i].created_at

\* C9 witness: an update was saved at a later clock reading than the
\* record's creation.
C9_Witness ==
    /\ pc["p1"] = "done"
    /\ cmd["p1"].command = "update"
    /\ hist["p1"].wrote
    /\ \E i \in DOMAIN Stored :
         /\ Stored[i].id = cmd["p1"].id
         /\ Stored[i].updated_at > Stored[i].created_at

\* C10 (as claimed): every record constructed from a title and an optional
\* category has created_at = updated_at when constructed, and done = false.
C10_FreshRecord ==
    \A p \in Procs : \A i \in DOMAIN hist[p].made :
        /\ hist[p].made[i].created_at = hist[p].made[i].updated_at
        /\ hist[p].made[i].done = FALSE

\* What does hold of a constructed record: done is false and updated_at is
\* not before created_at.
FreshRecordOrdered ==
    \A p \in Procs : \A i \in DOMAIN hist[p].made :
        /\ hist[p].made[i].created_at <= hist[p].made[i].updated_at
        /\ hist[p].made[i].done = FALSE

(***************************************************************************)
(* SpecCmd: one command runs on a store that holds any collection (also    *)
(* one with repeated ids, or no file at all).                              *)
(***************************************************************************)
CmdArgs ==
    { parse_add(t, c) : t \in {<<"a">>}, c \in {None, Work} }
    \cup { parse_update(i, t, c, d) :
             i \in ArgIds, t \in {None, <<>>, <<"B">>}, c \in {None, Work},
             d \in OptDone }
    \cup DeleteArgs

InitCmd ==
    /\ \E f \in StoreFiles :
         fs = [n \in Paths |-> IF n = DbPath THEN f ELSE NoFile]
    /\ clock = 1
    /\ nextId = MaxIds + 1
    /\ pc = [p \in Procs |-> "idle"]
    /\ cmd = [p \in Procs |-> NoArgs]
    /\ items = [p \in Procs |-> <<>>]
    /\ rc = [p \in Procs |-> 0]
    /\ tmp = [p \in Procs |-> NoTmp]
    /\ out = [p \in Procs |-> <<>>]
    /\ hist = [p \in Procs |-> NoHist]

NextCmd ==
    \/ \E args \in CmdArgs : pc["p1"] = "idle" /\ Start("p1", args)
    \/ cmd_add("p1")
    \/ cmd_update("p1")
    \/ cmd_delete("p1")

SpecCmd == InitCmd /\ [][NextCmd]_vars

\* The handler of p returns in this step
Returns(p) == pc[p] = "loaded" /\ pc'[p] = "done"

HasId(its, item_id) == \E i \in DOMAIN its : its[i].id = item_id

\* C4: update (with any of --title, --category, --done) and delete with an
\* id that no record of the loaded collection has return 1, do not save and
\* leave the store file as it was.
C4_NotFound ==
    [][\A p \in Procs :
         (/\ Returns(p)
          /\ cmd[p].command \in {"update", "delete"}
          /\ ~HasId(items[p], cmd[p].id))
         => /\ rc'[p] = 1
            /\ ~hist'[p].wrote
            /\ fs' = fs]_vars

\* C4 witness: an update with fields given has returned 1 on a non-empty
\* collection that has no record of the id.
C4_Witness ==
    /\ pc["p1"] = "done"
    /\ cmd["p1"].command = "update"
    /\ cmd["p1"].title # None
    /\ cmd["p1"].done # NoDone
    /\ Len(hist["p1"].loaded) > 0
    /\ ~HasId(hist["p1"].loaded, cmd["p1"].id)
    /\ rc["p1"] = 1

\* C4 witness for delete
C4_WitnessDelete ==
    /\ pc["p1"] = "done"
    /\ cmd["p1"].command = "delete"
    /\ Len(hist["p1"].loaded) > 0
    /\ ~HasId(hist["p1"].loaded, cmd["p1"].id)
    /\ rc["p1"] = 1

\* C5: update of an existing id with none of --title, --category, --done
\* returns 0, does not save and leaves the store file (so also the record's
\* updated_at) as it was.
C5_NoOpUpdate ==
    [][\A p \in Procs :
         (/\ Returns(p)
          /\ cmd[p].command = "update"
          /\ HasId(items[p], cmd[p].id)
          /\ cmd[p].title = None
          /\ cmd[p].category = None
          /\ cmd[p].done = NoDone)
         => /\ rc'[p] = 0
            /\ ~hist'[p].wrote
            /\ fs' = fs]_vars

\* C5 witness: an update without fields has returned on a collection that
\* has the id.
C5_Witness ==
    /\ pc["p1"] = "done"
    /\ cmd["p1"] = parse_update(cmd["p1"].id, None, None, NoDone)
    /\ HasId(hist["p1"].loaded, cmd["p1"].id)
    /\ rc["p1"] = 0

(***************************************************************************)
(* SpecRace: two processes run one mutating command each on the same store *)
(* file; their loads and saves interleave freely.                          *)
(***************************************************************************)
RaceFiles ==
    {NoFile} \cup
    { File(serialize(c)) :
        c \in { d \in Collections(StoreItems, MaxLen) :
                  \A i, j \in DOMAIN d : i < j => d[i].id < d[j].id } }

RaceArgs ==
    { parse_add(<<"a">>, None) }
    \cup { parse_update(i, None, None, <<TRUE>>) : i \in 1..2 }
    \cup { parse_update(i, <<"B">>, Work, NoDone) : i \in 1..2 }
    \cup { parse_delete(i) : i \in 1..2 }

InitRace ==
    /\ \E f \in RaceFiles :
         fs = [n \in Paths |-> IF n = DbPath THEN f ELSE NoFile]
    /\ clock = 1
    /\ nextId = MaxIds + 1
    /\ pc = [p \in Procs |-> "idle"]
    /\ cmd = [p \in Procs |-> NoArgs]
    /\ items = [p \in Procs |-> <<>>]
    /\ rc = [p \in Procs |-> 0]
    /\ tmp = [p \in Procs |-> NoTmp]
    /\ out = [p \in Procs |-> <<>>]
    /\ hist = [p \in Procs |-> NoHist]

NextRace ==
    \E p \in Procs :
        \/ \E args \in RaceArgs : pc[p] = "idle" /\ Start(p, args)
        \/ cmd_add(p)
        \/ cmd_update(p)
        \/ cmd_delete(p)

SpecRace == InitRace /\ [][NextRace]_vars

\* Both commands have saved and returned, both loaded before either saved,
\* and q saved after p
BothLoadedFirst(p, q) ==
    /\ p # q
    /\ pc[p] = "done" /\ pc[q] = "done"
    /\ hist[p].wrote /\ hist[q].wrote
    /\ ~hist[p].after /\ ~hist[q].after
    /\ hist[p].order < hist[q].order

\* C3: when two mutating commands both load before either saves, both return
\* 0 and the store file holds what the later saver computed from the
\* collection both loaded: a record the other added is not there, a record
\* the other deleted is still there, a record the other updated is as it was
\* loaded.
C3_LastSaveWins ==
    \A p, q \in Procs :
        BothLoadedFirst(p, q)
        => /\ rc[p] = 0
           /\ rc[q] = 0
           /\ hist[p].loaded = hist[q].loaded
           /\ Stored = items[q]
           /\ cmd[p].command = "add"
                => \A i \in DOMAIN Stored : Stored[i] # hist[p].made[1]
           /\ (cmd[p].command = "delete" /\ cmd[q].id # cmd[p].id)
                => HasId(Stored, cmd[p].id)
           /\ (cmd[p].command = "update" /\ cmd[q].id # cmd[p].id)
                => \A i \in DOMAIN Stored :
                     Stored[i].id = cmd[p].id
                        => \E j \in DOMAIN hist[p].loaded :
                             Stored[i] = hist[p].loaded[j]

\* C3 witness: an add and an update both loaded first and both returned 0;
\* the update saved last and the added record is not in the store.
C3_Witness ==
    \E p, q \in Procs :
        /\ BothLoadedFirst(p, q)
        /\ cmd[p].command = "add"
        /\ cmd[q].command = "update"
        /\ rc[p] = 0 /\ rc[q] = 0
        /\ ~HasId(Stored, hist[p].made[1].id)

\* C3 witness: an update that changed a record is lost to a later add.
C3_WitnessUpdateLost ==
    \E p, q \in Procs :
        /\ BothLoadedFirst(p, q)
        /\ cmd[p].command = "update"
        /\ cmd[q].command = "add"
        /\ \E i \in DOMAIN items[p], j \in DOMAIN Stored :
             /\ items[p][i].id = cmd[p].id
             /\ Stored[j].id = cmd[p].id
             /\ Stored[j] # items[p][i]

(***************************************************************************)
(* SpecList: list runs with any combination of filters on a store that     *)
(* holds any collection of records whose titles and categories differ in   *)
(* case.                                                                   *)
(***************************************************************************)
ListItems ==
    { TodoItem(<<"a", "B">>, Work, FALSE, 1, 0, 0),
      TodoItem(<<"b">>, <<"w", "o", "r", "k">>, TRUE, 2, 0, 1),
      TodoItem(<<"A">>, General, TRUE, 3, 1, 1) }

ListFiles ==
    {NoFile} \cup { File(serialize(c)) : c \in Collections(ListItems, MaxLen) }

ListArgs ==
    { parse_list(c, d, t) :
        c \in {None, <<>>, Work, <<"W", "O", "R", "K">>, <<"W">>},
        d \in OptDone,
        t \in {None, <<>>, <<"b">>, <<"A", "b">>, <<"B", "a">>} }

InitList ==
    /\ \E f \in ListFiles :
         fs = [n \in Paths |-> IF n = DbPath THEN f ELSE NoFile]
    /\ clock = 1
    /\ nextId = MaxIds + 1
    /\ pc = [p \in Procs |-> "idle"]
    /\ cmd = [p \in Procs |-> NoArgs]
    /\ items = [p \in Procs |-> <<>>]
    /\ rc = [p \in Procs |-> 0]
    /\ tmp = [p \in Procs |-> NoTmp]
    /\ out = [p \in Procs |-> <<>>]
    /\ hist = [p \in Procs |-> NoHist]

NextList ==
    \/ \E args \in ListArgs : pc["p1"] = "idle" /\ Start("p1", args)
    \/ cmd_list("p1")

SpecList == InitList /\ [][NextList]_vars

\* The records of its that satisfy every filter that is supplied (not None)
Matching(its, args) ==
    SelectSeq(its, LAMBDA it :
        /\ args.category # None => lower(it.category) = lower(args.category)
        /\ args.done # NoDone => it.done = args.done[1]
        /\ args.search # None => contains(lower(it.title), lower(args.search)))

ListReturned(p) == pc[p] = "done" /\ cmd[p].command = "list"

\* C7 (as claimed): list displays exactly the records that satisfy all the
\* supplied filters, in collection order, whatever string or boolean each
\* supplied filter is.
C7_ListShowsMatching ==
    \A p \in Procs :
        ListReturned(p) => out[p] = Matching(hist[p].loaded, cmd[p])

\* What list does display: the same, with an empty --category taken as no
\* category filter at all.
ListShowsMatchingNonEmptyCategory ==
    \A p \in Procs :
        ListReturned(p) =>
            out[p] = Matching(hist[p].loaded,
                        [cmd[p] EXCEPT !.category = IF @ = <<>> THEN None ELSE @])

(***************************************************************************)
(* The mutating commands, one at a time, on any stored collection          *)
(* (SpecCmd)                                                               *)
(***************************************************************************)
\* C11: a command keeps the id and the created_at of every record that stays
\* in the collection; an update changes at most the first record that has
\* the id, in title, category, done and updated_at only, and keeps the
\* length and the order; an add keeps the old records as they are, in
\* order; a delete leaves only records that were there, as they were.
C11_IdAndCreatedAtKept ==
    [][\A p \in Procs :
         Returns(p) =>
           /\ cmd[p].command = "update" =>
                /\ Len(Stored') = Len(Stored)
                /\ \A i \in DOMAIN Stored :
                     /\ Stored'[i].id = Stored[i].id
                     /\ Stored'[i].created_at = Stored[i].created_at
                     /\ Stored'[i] # Stored[i] =>
                          /\ Stored[i].id = cmd[p].id
                          /\ \A j \in 1..(i - 1) : Stored[j].id # cmd[p].id
           /\ cmd[p].command = "add" =>
                /\ Len(Stored') = Len(Stored) + 1
                /\ \A i \in DOMAIN Stored : Stored'[i] = Stored[i]
           /\ cmd[p].command = "delete" =>
                \A k \in DOMAIN Stored' :
                    \E i \in DOMAIN Stored : i >= k /\ Stored'[k] = Stored[i]
      ]_vars

\* C11 witness: an update has changed title, category and done of the second
\* of two records; the first is as it was loaded.
C11_Witness ==
    /\ pc["p1"] = "done"
    /\ cmd["p1"].command = "update"
    /\ cmd["p1"].title # None
    /\ cmd["p1"].category # None
    /\ cmd["p1"].done # NoDone
    /\ Len(Stored) = 2
    /\ Stored[1] = hist["p1"].loaded[1]
    /\ Stored[2] # hist["p1"].loaded[2]
    /\ Stored[2].id = cmd["p1"].id

\* The position of the first record of its that has the id (0 if none)
FirstWithId(its, item_id) ==
    IF HasId(its, item_id)
    THEN CHOOSE i \in DOMAIN its :
            its[i].id = item_id /\ \A j \in 1..(i - 1) : its[j].id # item_id
    ELSE 0

\* C12: an update of an existing id with at least one field given sets
\* exactly the given fields (also to the value they have), sets updated_at
\* to the clock reading, which is not before the previous updated_at, saves
\* and returns 0.
C12_UpdateTouches ==
    [][\A p \in Procs :
         (/\ Returns(p)
          /\ cmd[p].command = "update"
          /\ HasId(items[p], cmd[p].id)
          /\ (cmd[p].title # None \/ cmd[p].category # None
                \/ cmd[p].done # NoDone))
         => LET i == FirstWithId(Stored, cmd[p].id)
                old == Stored[i]
                new == Stored'[i]
            IN /\ rc'[p] = 0
               /\ hist'[p].wrote
               /\ new.title =
                    IF cmd[p].title # None THEN cmd[p].title ELSE old.title
               /\ new.category =
                    IF cmd[p].category # None THEN cmd[p].category
                                               ELSE old.category
               /\ new.done =
                    IF cmd[p].done # NoDone THEN cmd[p].done[1] ELSE old.done
               /\ new.updated_at = clock'
               /\ new.updated_at >= old.updated_at
      ]_vars

\* C12 witness: --done true was given for a record that was done already;
\* the update was saved with a later updated_at.
C12_Witness ==
    /\ pc["p1"] = "done"
    /\ cmd["p1"].command = "update"
    /\ cmd["p1"].done = <<TRUE>>
    /\ cmd["p1"].title = None
    /\ hist["p1"].wrote
    /\ rc["p1"] = 0
    /\ \E i \in DOMAIN Stored :
         /\ i = FirstWithId(hist["p1"].loaded, cmd["p1"].id)
         /\ hist["p1"].loaded[i].done
         /\ Stored[i].done
         /\ Stored[i].updated_at > hist["p1"].loaded[i].updated_at

\* The positions of its whose record has another id, and the k-th of them
OtherIds(its, item_id) == { i \in DOMAIN its : its[i].id # item_id }
KthOther(its, item_id, k) ==
    CHOOSE i \in OtherIds(its, item_id) :
        Cardinality({ j \in OtherIds(its, item_id) : j <= i }) = k

C14_AddAppends ==
    [][\A p \in Procs :
         (Returns(p) /\ cmd[p].command = "add")
         => /\ rc'[p] = 0
            /\ Len(Stored') = Len(Stored) + 1
            /\ \A i \in DOMAIN Stored : Stored'[i] = Stored[i]
            /\ (~fs[DbPath].exists) => Len(Stored') = 1
            /\ Stored'[Len(Stored')].title = cmd[p].title
            /\ Stored'[Len(Stored')].category =
                 IF cmd[p].category = Work THEN Work ELSE General
      ]_vars

\* C14 witness: add without --category has run on a store file that did not
\* exist; the store holds the one new record, category "General".
C14_Witness ==
    /\ pc["p1"] = "done"
    /\ cmd["p1"].command = "add"
    /\ ~hist["p1"].pre.exists
    /\ rc["p1"] = 0
    /\ Len(Stored) = 1
    /\ Stored[1].category = General
    /\ Stored[1].title = <<"a">>

\* C14 witness: add --category Work after two records
C14_WitnessAppend ==
    /\ pc["p1"] = "done"
    /\ cmd["p1"].command = "add"
    /\ Len(hist["p1"].loaded) = 2
    /\ Len(Stored) = 3
    /\ Stored[3].category = Work

(***************************************************************************)
(* SpecDup: update or delete runs on a store in which records share an id  *)
(* (a file edited by hand: the commands themselves give every record a     *)
(* fresh id).                                                              *)
(***************************************************************************)
DupItems ==
    StoreItems \cup { TodoItem(<<"c">>, Work, FALSE, 1, 1, 1) }

DupLen == MaxLen + 1

DupFiles == { File(serialize(c)) : c \in Collections(DupItems, DupLen) }

DupArgs ==
    { parse_update(i, t, None, d) :
        i \in 1..MaxIds, t \in {None, <<"B">>}, d \in OptDone }
    \cup { parse_delete(i) : i \in 1..MaxIds }

InitDup ==
    /\ \E f \in DupFiles :
         fs = [n \in Paths |-> IF n = DbPath THEN f ELSE NoFile]
    /\ clock = 1
    /\ nextId = MaxIds + 1
    /\ pc = [p \in Procs |-> "idle"]
    /\ cmd = [p \in Procs |-> NoArgs]
    /\ items = [p \in Procs |-> <<>>]
    /\ rc = [p \in Procs |-> 0]
    /\ tmp = [p \in Procs |-> NoTmp]
    /\ out = [p \in Procs |-> <<>>]
    /\ hist = [p \in Procs |-> NoHist]

NextDup ==
    \/ \E args \in DupArgs : pc["p1"] = "idle" /\ Start("p1", args)
    \/ cmd_update("p1")
    \/ cmd_delete("p1")

SpecDup == InitDup /\ [][NextDup]_vars

\* The number of records of its that have the id
CountId(its, item_id) ==
    Cardinality({ i \in DOMAIN its : its[i].id = item_id })

\* C20: when several records of the loaded collection have the id, delete
\* removes all of them in the one command (and nothing else), and update
\* changes only the first of them in collection order: every later record,
\* also one of the same id, stays as it was.
C20_DuplicateIds ==
    [][\A p \in Procs :
         (Returns(p) /\ CountId(items[p], cmd[p].id) >= 2)
         => /\ cmd[p].command = "delete" =>
                 /\ CountId(Stored', cmd[p].id) = 0
                 /\ Len(Stored') = Len(Stored) - CountId(Stored, cmd[p].id)
            /\ cmd[p].command = "update" =>
                 /\ Len(Stored') = Len(Stored)
                 /\ \A i \in DOMAIN Stored :
                      i # FirstWithId(Stored, cmd[p].id)
                          => Stored'[i] = Stored[i]
                 /\ (cmd[p].title # None \/ cmd[p].done # NoDone) =>
                      Stored'[FirstWithId(Stored, cmd[p].id)].updated_at
                          = clock'
      ]_vars

\* C20 witness: delete has removed two different records of one id that had
\* a record of another id between them.
C20_Witness ==
    /\ pc["p1"] = "done"
    /\ cmd["p1"].command = "delete"
    /\ Len(hist["p1"].loaded) = 3
    /\ hist["p1"].loaded[1].id = cmd["p1"].id
    /\ hist["p1"].loaded[3].id = cmd["p1"].id
    /\ hist["p1"].loaded[1] # hist["p1"].loaded[3]
    /\ hist["p1"].loaded[2].id # cmd["p1"].id
    /\ Stored = <<hist["p1"].loaded[2]>>

\* C20 witness: update --title has changed the first of two records of one
\* id; the second of them still has its old title.
C20_WitnessUpdate ==
    /\ pc["p1"] = "done"
    /\ cmd["p1"].command = "update"
    /\ cmd["p1"].title = <<"B">>
    /\ Len(Stored) >= 2
    /\ Stored[1].id = cmd["p1"].id
    /\ Stored[2].id = cmd["p1"].id
    /\ Stored[1].title = <<"B">>
    /\ Stored[2].title # <<"B">>
    /\ Stored[2] = hist["p1"].loaded[2]

(***************************************************************************)
(* SpecArgs: the command line of update and list, with --done as typed     *)
(* (cli.py lines 54-59, 166, 175, 184-199)                                 *)
(***************************************************************************)
TrueWords == { <<"t", "r", "u", "e">>, <<"1">>, <<"y", "e", "s">> }
FalseWords == { <<"f", "a", "l", "s", "e">>, <<"0">>, <<"n", "o">> }

parse_bool_lenient(value) ==
    [ok |-> TRUE, value |-> lower(value) \in TrueWords]

\* _parse_bool: the value in lower case is looked up in the two tuples;
\* anything else raises argparse.ArgumentTypeError (ok is FALSE)
parse_bool(value) ==
    IF lower(value) \in TrueWords THEN [ok |-> TRUE, value |-> TRUE]
    ELSE IF lower(value) \in FalseWords THEN [ok |-> TRUE, value |-> FALSE]
    ELSE [ok |-> FALSE, value |-> FALSE]

\* parser.parse_args on a command line whose --done is the typed string (None
\* when the option is absent): argparse applies type=_parse_bool
parse_ok(argv) == argv.done = None \/ parse_bool(argv.done).ok

parse_args(argv) ==
    [argv EXCEPT !.done = IF argv.done = None THEN NoDone
                          ELSE <<parse_bool(argv.done).value>>]

\* What is typed after --done
RawDone ==
    { None, <<>>, <<"1">>, <<"0">>, <<"2">>, <<"Y">>,
      <<"y", "e", "s">>, <<"N", "o">>, <<"T", "r", "u", "e">>,
      <<"F", "A", "L", "S", "E">>, <<"m", "a", "y", "b", "e">> }

\* The command lines: cmd[p] holds the command line of a process that has
\* not parsed it yet, and the Namespace afterwards
Argvs ==
    { Args("update", t, None, i, d, None) :
        t \in {None, <<"B">>}, i \in 1..MaxIds, d \in RawDone }
    \cup { Args("list", None, c, 0, d, None) :
             c \in {None, Work}, d \in RawDone }

\* main lines 184-199: parse_args, then the handler, whose first statement
\* loads the store.  When a type function raises, argparse prints the usage
\* and the message and exits with status 2: no handler runs.
main(p) ==
    /\ pc[p] = "idle"
    /\ IF parse_ok(cmd[p])
       THEN Start(p, parse_args(cmd[p]))
       ELSE /\ pc' = [pc EXCEPT ![p] = "usage"]
            /\ rc' = [rc EXCEPT ![p] = 2]
            /\ UNCHANGED <<fs, clock, nextId, cmd, items, tmp, out, hist>>

InitArgs ==
    /\ \E f \in StoreFiles :
         fs = [n \in Paths |-> IF n = DbPath THEN f ELSE NoFile]
    /\ clock = 1
    /\ nextId = MaxIds + 1
    /\ pc = [p \in Procs |-> "idle"]
    /\ \E argv \in Argvs :
         cmd = [p \in Procs |-> IF p = "p1" THEN argv ELSE NoArgs]
    /\ items = [p \in Procs |-> <<>>]
    /\ rc = [p \in Procs |-> 0]
    /\ tmp = [p \in Procs |-> NoTmp]
    /\ out = [p \in Procs |-> <<>>]
    /\ hist = [p \in Procs |-> NoHist]

NextArgs ==
    \/ main("p1")
    \/ cmd_update("p1")
    \/ cmd_list("p1")

SpecArgs == InitArgs /\ [][NextArgs]_vars

\* The typed --done value is none of true, 1, yes, false, 0, no in any case
BadDone(argv) ==
    /\ argv.done # None
    /\ \A w \in TrueWords \cup FalseWords :
         \/ Len(w) # Len(argv.done)
         \/ \E i \in DOMAIN w : w[i] # LowerChar(argv.done[i])

\* C15: update and list with a --done value that is none of the six words
\* end with a non-zero exit status at the parse, before the store is loaded:
\* nothing is loaded, nothing is saved, the store file stays as it was, and
\* the process takes no further step.
C15_BadDoneRejected ==
    [][\A p \in Procs :
         /\ (pc[p] = "idle" /\ pc'[p] # "idle" /\ BadDone(cmd[p]))
              => /\ pc'[p] = "usage"
                 /\ rc'[p] # 0
                 /\ fs' = fs
                 /\ items'[p] = items[p]
                 /\ hist'[p] = NoHist
         /\ pc[p] = "usage" => pc'[p] = "usage" /\ fs' = fs
      ]_vars

\* C15 witness: list --done maybe has exited with status 2 on a store that
\* holds records; nothing was loaded.
C15_Witness ==
    /\ pc["p1"] = "usage"
    /\ cmd["p1"].command = "list"
    /\ cmd["p1"].done = <<"m", "a", "y", "b", "e">>
    /\ rc["p1"] = 2
    /\ fs[DbPath].exists
    /\ fs[DbPath] # File(serialize(<<>>))
    /\ items["p1"] = <<>>
    /\ ~hist["p1"].wrote

\* C15 witness: update --done 2 has exited with status 2
C15_WitnessUpdate ==
    /\ pc["p1"] = "usage"
    /\ cmd["p1"].command = "update"
    /\ cmd["p1"].done = <<"2">>
    /\ rc["p1"] = 2

(***************************************************************************)
(* SpecHand: list runs on a store file whose records may lack fields (a    *)
(* file written by hand or by another program)                             *)
(***************************************************************************)
OptionalFields == Fields \ {"title"}

\* Which fields a record of the file lacks: none, one, or all but the title
Drops == {{}} \cup { {k} : k \in OptionalFields } \cup {OptionalFields}

HandDicts ==
    { [k \in Fields \ drop |-> to_dict(item)[k]] :
        item \in StoreItems, drop \in Drops }

HandFiles ==
    { File(json_dump(data)) : data \in Collections(HandDicts, MaxLen) }

InitHand ==
    /\ \E f \in HandFiles :
         fs = [n \in Paths |-> IF n = DbPath THEN f ELSE NoFile]
    /\ clock = 1
    /\ nextId = MaxIds + 1
    /\ pc = [p \in Procs |-> "idle"]
    /\ cmd = [p \in Procs |-> NoArgs]
    /\ items = [p \in Procs |-> <<>>]
    /\ rc = [p \in Procs |-> 0]
    /\ tmp = [p \in Procs |-> NoTmp]
    /\ out = [p \in Procs |-> <<>>]
    /\ hist = [p \in Procs |-> NoHist]

NextHand ==
    \/ pc["p1"] = "idle" /\ Start("p1", parse_list(None, NoDone, None))
    \/ cmd_list("p1")

SpecHand == InitHand /\ [][NextHand]_vars

\* Some record of the file lacks one of category, done, id, created_at,
\* updated_at
LacksField(file) ==
    /\ file.exists
    /\ json_ok(file.data)
    /\ \E i \in DOMAIN json_load(file.data) :
         ~(OptionalFields \subseteq DOMAIN json_load(file.data)[i])

\* C16 (as claimed): loading a store file in which some record lacks
\* category, done, id, created_at or updated_at fails with an error: no
\* process gets a list of records out of such a file.
C16_MissingFieldFails ==
    \A p \in Procs :
        pc[p] \in {"loaded", "done"} => ~LacksField(hist[p].pre)

\* What the load does to such a file: it succeeds, and a field the record
\* lacks has the default of the dataclass (category "General", done false, a
\* new id, the time of the load).
MissingFieldDefaulted ==
    \A p \in Procs :
        LacksField(hist[p].pre) =>
            /\ pc[p] \in {"loaded", "done"}
            /\ LET data == json_load(hist[p].pre.data)
               IN \A i \in DOMAIN data :
                    /\ "category" \notin DOMAIN data[i]
                         => items[p][i].category = General
                    /\ "done" \notin DOMAIN data[i] => ~items[p][i].done
                    /\ "id" \notin DOMAIN data[i] => items[p][i].id >= nextId
                    /\ "created_at" \notin DOMAIN data[i]
                         => items[p][i].created_at = clock
                    /\ "updated_at" \notin DOMAIN data[i]
                         => items[p][i].updated_at = clock

(***************************************************************************)
(* cmd_categories (cli.py lines 129-142)                                   *)
(***************************************************************************)
\* The characters of the model in the order of their code points
CodePoints ==
    <<" ", "0", "1", "2", "3", "4", "5", "6", "7", "8", "9">>
        \o UpperCase \o LowerCase

ord(c) == CHOOSE i \in DOMAIN CodePoints : CodePoints[i] = c

\* a < b for Python strings: the first difference decides, a proper prefix
\* is smaller
str_lt(a, b) ==
    \E k \in 1..(Len(a) + 1) :
        /\ \A j \in 1..(k - 1) : j <= Len(b) /\ a[j] = b[j]
        /\ k <= Len(b)
        /\ k <= Len(a) => ord(a[k]) < ord(b[k])

RECURSIVE sorted_descending(_)
sorted_descending(S) ==
    IF S = {} THEN <<>>
    ELSE LET m == CHOOSE x \in S : \A y \in S \ {x} : str_lt(y, x)
         IN  <<m>> \o sorted_descending(S \ {m})

\* sorted(counts): the keys of the dict in ascending order
RECURSIVE sorted(_)
sorted(S) ==
    IF S = {} THEN <<>>
    ELSE LET m == CHOOSE x \in S : \A y \in S \ {x} : str_lt(x, y)
         IN  <<m>> \o sorted(S \ {m})

\* the dict counts after the loop: one key per category string of the items
category_counts(its) ==
    [c \in { its[i].category : i \in DOMAIN its } |->
        Cardinality({ i \in DOMAIN its : its[i].category = c })]

\* the Namespace of `categories`
parse_categories == Args("categories", None, None, 0, NoDone, None)

\* cmd_categories after the load: nothing but the message for no items (no
\* line of the listing), else one line per key of counts, name and count,
\* in sorted order; return 0
cmd_categories(p) ==
    /\ pc[p] = "loaded"
    /\ cmd[p].command = "categories"
    /\ LET counts == category_counts(items[p])
           names == sorted(DOMAIN counts)
       IN out' = [out EXCEPT ![p] =
                    [i \in DOMAIN names |-> <<names[i], counts[names[i]]>>]]
    /\ rc' = [rc EXCEPT ![p] = 0]
    /\ pc' = [pc EXCEPT ![p] = "done"]
    /\ UNCHANGED <<fs, clock, nextId, cmd, items, tmp, hist>>

(***************************************************************************)
(* SpecView: list (any filters) or categories runs on a store that holds   *)
(* any collection, or on no store file.                                    *)
(***************************************************************************)
ViewArgs == ListArgs \cup {parse_categories}

InitView == InitList

NextView ==
    \/ \E args \in ViewArgs : pc["p1"] = "idle" /\ Start("p1", args)
    \/ cmd_list("p1")
    \/ cmd_categories("p1")

SpecView == InitView /\ [][NextView]_vars

RECURSIVE SumCounts(_)
SumCounts(lines) ==
    IF lines = <<>> THEN 0 ELSE Head(lines)[2] + SumCounts(Tail(lines))

CategoriesReturned(p) == pc[p] = "done" /\ cmd[p].command = "categories"

\* C17: categories reports every category string of the collection (as
\* spelled: case matters) exactly once, with the number of records that have
\* exactly that category, and nothing else, in ascending order of the name;
\* the counts add up to the number of records; the exit status is 0.
C17_CategoriesCounts ==
    \A p \in Procs :
        CategoriesReturned(p) =>
            LET its == hist[p].loaded
            IN /\ rc[p] = 0
               /\ \A i \in DOMAIN its :
                    \E k \in DOMAIN out[p] : out[p][k][1] = its[i].category
               /\ \A k \in DOMAIN out[p] :
                    /\ out[p][k][2] =
                         Cardinality({ i \in DOMAIN its :
                                         its[i].category = out[p][k][1] })
                    /\ out[p][k][2] >= 1
                    /\ \A j \in DOMAIN out[p] :
                         j < k => /\ out[p][j][1] # out[p][k][1]
                                  /\ str_lt(out[p][j][1], out[p][k][1])
               /\ SumCounts(out[p]) = Len(its)

\* C17 witness: "Work" and "work" are reported apart, "Work" first
C17_Witness ==
    /\ CategoriesReturned("p1")
    /\ rc["p1"] = 0
    /\ Len(hist["p1"].loaded) = 2
    /\ out["p1"] = << <<Work, 1>>, <<<<"w", "o", "r", "k">>, 1>> >>

\* C17 witness: two records of one category are one line with count 2
C17_WitnessTwo ==
    /\ CategoriesReturned("p1")
    /\ Len(hist["p1"].loaded) = 2
    /\ out["p1"] = << <<General, 2>> >>

\* C18: list, with any filters, and categories do not write to the store:
\* at every step of such a command the files are as before (a store file
\* that does not exist still does not exist), no save is called, and the
\* command returns 0 whether or not a record matches.
C18_ViewsDoNotWrite ==
    [][\A p \in Procs :
         cmd'[p].command \in {"list", "categories"} =>
            /\ pc'[p] # pc[p] => fs' = fs /\ ~hist'[p].wrote
            /\ Returns(p) => rc'[p] = 0
      ]_vars

\* C18 witness: list --category W has returned 0 with nothing displayed on a
\* store that holds records; the file is the one it found.
C18_Witness ==
    /\ ListReturned("p1")
    /\ cmd["p1"].category = <<"W">>
    /\ rc["p1"] = 0
    /\ out["p1"] = <<>>
    /\ hist["p1"].loaded # <<>>
    /\ fs[DbPath] = hist["p1"].pre

\* C18 witness: categories has returned 0 where there is no store file, and
\* there is none afterwards
C18_WitnessNoFile ==
    /\ CategoriesReturned("p1")
    /\ rc["p1"] = 0
    /\ ~hist["p1"].pre.exists
    /\ \A n \in Paths : ~fs[n].exists

(***************************************************************************)
(* SpecScenario: one user runs the seven commands of the end-to-end        *)
(* scenario, one after the other, on a store that does not exist at        *)
(* first.  Each add reads the clock twice, each update once.               *)
(***************************************************************************)
BuyMilk == <<"B", "u", "y", " ", "m", "i", "l", "k">>
SprintReview ==
    <<"S", "p", "r", "i", "n", "t", " ", "r", "e", "v", "i", "e", "w">>

\* The command lines in order; the first record gets the first identifier
\* of _new_id and the second record the second
Script ==
    << parse_add(BuyMilk, None),
       parse_add(SprintReview, Work),
       parse_list(Work, NoDone, None),
       parse_update(2, None, None, <<TRUE>>),
       parse_categories,
       parse_delete(1),
       parse_list(None, NoDone, None) >>

\* The k-th command is the next to run
ScriptAt(k) ==
    IF k = 1 THEN pc["p1"] = "idle"
    ELSE pc["p1"] = "done" /\ cmd["p1"] = Script[k - 1]

NextScenario ==
    \/ \E k \in DOMAIN Script : ScriptAt(k) /\ Start("p1", Script[k])
    \/ cmd_add("p1")
    \/ cmd_update("p1")
    \/ cmd_delete("p1")
    \/ cmd_list("p1")
    \/ cmd_categories("p1")

SpecScenario == Init /\ [][NextScenario]_vars

\* The k-th command of the script has returned
ScriptDone(k) == pc["p1"] = "done" /\ cmd["p1"] = Script[k]

\* C19: from no store, after add "Buy milk" the store holds one record,
\* category "General", not done; after add "Sprint review" --category Work,
\* list --category Work displays exactly the second record; after update of
\* the second record with --done true, categories reports General 1 and
\* Work 1; after delete of the first record, list displays exactly the
\* second record.  Every command returns 0.
C19_Scenario ==
    /\ pc["p1"] = "done" => rc["p1"] = 0
    /\ ScriptDone(1) =>
         /\ Len(Stored) = 1
         /\ Stored[1].title = BuyMilk
         /\ Stored[1].category = General
         /\ Stored[1].done = FALSE
    /\ ScriptDone(3) =>
         /\ Len(Stored) = 2
         /\ out["p1"] = <<Stored[2]>>
         /\ Stored[2].title = SprintReview
         /\ Stored[1].title = BuyMilk
    /\ ScriptDone(5) =>
         /\ out["p1"] = << <<General, 1>>, <<Work, 1>> >>
         /\ Stored[2].done = TRUE
         /\ Stored[1].done = FALSE
    /\ ScriptDone(7) =>
         /\ Len(out["p1"]) = 1
         /\ out["p1"] = Stored
         /\ out["p1"][1].title = SprintReview
         /\ out["p1"][1].category = Work
         /\ out["p1"][1].done = TRUE
         /\ out["p1"][1].id = 2

\* C19 witness: the last list of the script has displayed the one record
\* "Sprint review", done
C19_Witness ==
    /\ ScriptDone(7)
    /\ rc["p1"] = 0
    /\ Len(out["p1"]) = 1
    /\ out["p1"][1].title = SprintReview
    /\ out["p1"][1].done

====
